---------------------------- MODULE Spec2Model ----------------------------
(***************************************************************************)
(* Model of package passwordcheck (dchest/passwordcheck): the textual      *)
(* policy parser ParsePolicy and the Go wrapper Policy.Check around the    *)
(* native evaluator passwdqc_check.                                        *)
(*                                                                         *)
(* Byte strings are sequences of one-character strings.  NilBytes is the   *)
(* nil []byte of the Go side and the NULL string argument of the C side: a *)
(* value that no byte string equals.  NIL is the nil error, the nil        *)
(* *Policy and the NULL reason.                                            *)
(***************************************************************************)
EXTENDS Integers, Sequences, FiniteSets, TLC

NIL == "nil"

NilBytes == << "nil" >>

(* ------------------------------ bounds -------------------------------- *)

\* Largest number of items joined into one configuration text.
MaxItems == 2

(* --------------------------- program constants ------------------------ *)

\* C.INT_MAX, the value of Disabled.
Disabled == 2147483647

DefaultPolicy ==
    [ Min             |-> << Disabled, 24, 11, 8, 7 >>,
      Max             |-> 1024,
      PassphraseWords |-> 3,
      MatchLength     |-> 4,
      DenySimilar     |-> TRUE ]

(* ------------------------- package strings ---------------------------- *)

DigitChars == { "0", "1", "2", "3", "4", "5", "6", "7", "8", "9" }

DigitVal(c) ==
    CASE c = "0" -> 0 [] c = "1" -> 1 [] c = "2" -> 2 [] c = "3" -> 3
      [] c = "4" -> 4 [] c = "5" -> 5 [] c = "6" -> 6 [] c = "7" -> 7
      [] c = "8" -> 8 [] c = "9" -> 9

DigitChar(d) ==
    CASE d = 0 -> "0" [] d = 1 -> "1" [] d = 2 -> "2" [] d = 3 -> "3"
      [] d = 4 -> "4" [] d = 5 -> "5" [] d = 6 -> "6" [] d = 7 -> "7"
      [] d = 8 -> "8" [] d = 9 -> "9"

\* The white space unicode.IsSpace knows among single bytes.
SpaceChars == { " ", "\t", "\n", "\r", "\f" }

HasPrefix(s, pre) ==
    /\ Len(s) >= Len(pre)
    /\ SubSeq(s, 1, Len(pre)) = pre

Drop(s, n) == SubSeq(s, n + 1, Len(s))

\* strings.Replace(s, old, new, -1) for a non-empty old.
RECURSIVE Replace(_, _, _)
Replace(s, old, new) ==
    IF s = << >> THEN << >>
    ELSE IF HasPrefix(s, old) THEN new \o Replace(Drop(s, Len(old)), old, new)
    ELSE << Head(s) >> \o Replace(Tail(s), old, new)

\* Index of the first occurrence of the character sep in s, 0 if none.
RECURSIVE IndexFrom(_, _, _)
IndexFrom(s, sep, i) ==
    IF i > Len(s) THEN 0
    ELSE IF s[i] = sep THEN i
    ELSE IndexFrom(s, sep, i + 1)

IndexByte(s, sep) == IndexFrom(s, sep, 1)

\* strings.Split(s, sep) for a one-character sep: always at least one part.
RECURSIVE Split(_, _)
Split(s, sep) ==
    LET i == IndexByte(s, sep)
    IN  IF i = 0 THEN << s >>
        ELSE << SubSeq(s, 1, i - 1) >> \o Split(Drop(s, i), sep)

\* strings.SplitN(s, sep, 2): at most two parts, the rest unsplit.
SplitN2(s, sep) ==
    LET i == IndexByte(s, sep)
    IN  IF i = 0 THEN << s >>
        ELSE << SubSeq(s, 1, i - 1), Drop(s, i) >>

RECURSIVE TrimLeft(_)
TrimLeft(s) ==
    IF s # << >> /\ Head(s) \in SpaceChars THEN TrimLeft(Tail(s)) ELSE s

RECURSIVE TrimRight(_)
TrimRight(s) ==
    IF s # << >> /\ s[Len(s)] \in SpaceChars
    THEN TrimRight(SubSeq(s, 1, Len(s) - 1))
    ELSE s

TrimSpace(s) == TrimRight(TrimLeft(s))

(* ------------------------------ strconv ------------------------------- *)

\* The value of a string of decimal digits, most significant first.
RECURSIVE DigitsValue(_, _)
DigitsValue(s, acc) ==
    IF s = << >> THEN acc
    ELSE DigitsValue(Tail(s), acc * 10 + DigitVal(Head(s)))

AllDigits(s) == \A i \in 1..Len(s) : s[i] \in DigitChars

\* strconv.Atoi: an optional sign, then one or more decimal digits; anything
\* else is a syntax error.  (The range error needs 19 digits or more.)
Atoi(s) ==
    LET signed == s # << >> /\ Head(s) \in { "+", "-" }
        body   == IF signed THEN Tail(s) ELSE s
    IN  IF body = << >> \/ ~AllDigits(body)
        THEN [ ok |-> FALSE, val |-> 0 ]
        ELSE [ ok  |-> TRUE,
               val |-> IF signed /\ Head(s) = "-"
                       THEN 0 - DigitsValue(body, 0)
                       ELSE DigitsValue(body, 0) ]

(* ----------------------------- ParsePolicy ---------------------------- *)

Str_min        == << "m", "i", "n" >>
Str_max        == << "m", "a", "x" >>
Str_passphrase == << "p", "a", "s", "s", "p", "h", "r", "a", "s", "e" >>
Str_match      == << "m", "a", "t", "c", "h" >>
Str_similar    == << "s", "i", "m", "i", "l", "a", "r" >>
Str_disabled   == << "d", "i", "s", "a", "b", "l", "e", "d" >>
Str_deny       == << "d", "e", "n", "y" >>
Str_permit     == << "p", "e", "r", "m", "i", "t" >>

ParseFailed == [ err |-> TRUE, p |-> NIL ]

\* ParseMinValue without the word disabled.
ParseMinValueDigitsOnly(v) == Atoi(v)

\* One entry of min: the word disabled, or what Atoi makes of it.
ParseMinValue(v) ==
    IF v = Str_disabled THEN [ ok |-> TRUE, val |-> Disabled ] ELSE Atoi(v)

\* The body of the loop over items: r is the policy so far, or the failure.
ParseItem(r, it) ==
    IF r.err THEN r
    ELSE
    LET nameValue == SplitN2(TrimSpace(it), "=")
    IN  IF Len(nameValue) # 2 THEN ParseFailed
        ELSE
        LET name  == nameValue[1]
            value == nameValue[2]
        IN  CASE name = Str_min ->
                   LET vals == Split(value, ",")
                   IN  IF Len(vals) # 5 THEN ParseFailed
                       ELSE IF \E i \in 1..5 : ~ParseMinValue(vals[i]).ok
                            THEN ParseFailed
                            ELSE [ err |-> FALSE,
                                   p   |-> [ r.p EXCEPT !.Min =
                                             [ i \in 1..5 |-> ParseMinValue(vals[i]).val ] ] ]
              [] name = Str_max ->
                   IF ~Atoi(value).ok THEN ParseFailed
                   ELSE [ err |-> FALSE, p |-> [ r.p EXCEPT !.Max = Atoi(value).val ] ]
              [] name = Str_passphrase ->
                   IF ~Atoi(value).ok THEN ParseFailed
                   ELSE [ err |-> FALSE,
                          p   |-> [ r.p EXCEPT !.PassphraseWords = Atoi(value).val ] ]
              [] name = Str_match ->
                   IF ~Atoi(value).ok THEN ParseFailed
                   ELSE [ err |-> FALSE,
                          p   |-> [ r.p EXCEPT !.MatchLength = Atoi(value).val ] ]
              [] name = Str_similar ->
                   IF value = Str_deny
                   THEN [ err |-> FALSE, p |-> [ r.p EXCEPT !.DenySimilar = TRUE ] ]
                   ELSE IF value = Str_permit
                   THEN [ err |-> FALSE, p |-> [ r.p EXCEPT !.DenySimilar = FALSE ] ]
                   ELSE ParseFailed
              [] OTHER -> ParseFailed

RECURSIVE ParseItems(_, _)
ParseItems(r, items) ==
    IF items = << >> THEN r
    ELSE ParseItems(ParseItem(r, Head(items)), Tail(items))

\* The items as strings.Fields would cut them: no empty ones.
ConfigItemsNoEmpty(config) ==
    SelectSeq(Split(Replace(Replace(config, << "\r", "\n" >>, << " " >>),
                            << "\n" >>, << " " >>),
                    " "),
              LAMBDA it : it # << >>)

\* The items ParsePolicy loops over: line ends become spaces, then the text
\* is cut at every space.
ConfigItems(config) ==
    Split(Replace(Replace(config, << "\r", "\n" >>, << " " >>),
                  << "\n" >>, << " " >>),
          " ")

\* Whether max is at least every enabled min.
MaxCoversMins(p) == \A i \in 1..5 : p.Min[i] # Disabled => p.Max >= p.Min[i]

\* ParsePolicy with a check of max against the enabled min values added.
ParsePolicyValidating(config) ==
    LET r == ParseItems([ err |-> FALSE, p |-> DefaultPolicy ], ConfigItems(config))
    IN  IF ~r.err /\ ~MaxCoversMins(r.p) THEN ParseFailed ELSE r

ParsePolicy(config) ==
    ParseItems([ err |-> FALSE, p |-> DefaultPolicy ], ConfigItems(config))

(* ----------------------- canonical policy text ------------------------ *)

\* strconv.Itoa for n >= 0.
RECURSIVE Itoa(_)
Itoa(n) ==
    IF n < 10 THEN << DigitChar(n) >>
    ELSE Itoa(n \div 10) \o << DigitChar(n % 10) >>

FormatMinValue(v) == IF v = Disabled THEN Str_disabled ELSE Itoa(v)

\* min=N0,N1,N2,N3,N4 max=N passphrase=N match=N similar=permit|deny
FormatPolicy(p) ==
    Str_min \o << "=" >>
      \o FormatMinValue(p.Min[1]) \o << "," >> \o FormatMinValue(p.Min[2])
      \o << "," >> \o FormatMinValue(p.Min[3]) \o << "," >>
      \o FormatMinValue(p.Min[4]) \o << "," >> \o FormatMinValue(p.Min[5])
      \o << " " >> \o Str_max \o << "=" >> \o Itoa(p.Max)
      \o << " " >> \o Str_passphrase \o << "=" >> \o Itoa(p.PassphraseWords)
      \o << " " >> \o Str_match \o << "=" >> \o Itoa(p.MatchLength)
      \o << " " >> \o Str_similar \o << "=" >>
      \o (IF p.DenySimilar THEN Str_deny ELSE Str_permit)

(* ------------------------------ Classifier ---------------------------- *)

LowerSeq == << "a", "b", "c", "d", "e", "f", "g", "h", "i", "j", "k", "l", "m",
               "n", "o", "p", "q", "r", "s", "t", "u", "v", "w", "x", "y", "z" >>
UpperSeq == << "A", "B", "C", "D", "E", "F", "G", "H", "I", "J", "K", "L", "M",
               "N", "O", "P", "Q", "R", "S", "T", "U", "V", "W", "X", "Y", "Z" >>

LowerChars == { LowerSeq[i] : i \in 1..26 }
UpperChars == { UpperSeq[i] : i \in 1..26 }

ToLowerChar(c) ==
    IF c \in UpperChars THEN LowerSeq[CHOOSE i \in 1..26 : UpperSeq[i] = c] ELSE c

ToLower(s) == [ i \in 1..Len(s) |-> ToLowerChar(s[i]) ]

EqualFold(a, b) == ToLower(a) = ToLower(b)

\* Every character is in exactly one class; what is neither a digit nor a
\* letter (other ASCII and non-ASCII alike) counts as "other".
ClassOf(c) ==
    IF c \in DigitChars THEN "digit"
    ELSE IF c \in LowerChars THEN "lower"
    ELSE IF c \in UpperChars THEN "upper"
    ELSE "other"

Classify(s) ==
    [ length  |-> Len(s),
      classes |-> Cardinality({ ClassOf(s[i]) : i \in 1..Len(s) }) ]

(* -------------------------- SimilarityMatcher ------------------------- *)

Min2(a, b) == IF a < b THEN a ELSE b

\* Whether the n characters of a from position i occur somewhere in b.
OccursIn(a, i, n, b) ==
    \E j \in 1..(Len(b) - n + 1) : SubSeq(b, j, j + n - 1) = SubSeq(a, i, i + n - 1)

\* The longest contiguous common substring, case-insensitive; among equally
\* long ones the one that starts first in a.  start = 0 when length = 0.
LongestCommonSubstring(a, b) ==
    LET la == ToLower(a)
        lb == ToLower(b)
        ok(n) == \E i \in 1..(Len(a) - n + 1) : OccursIn(la, i, n, lb)
        best == CHOOSE n \in 0..Min2(Len(a), Len(b)) :
                    /\ n = 0 \/ ok(n)
                    /\ \A m \in (n + 1)..Min2(Len(a), Len(b)) : ~ok(m)
        first == IF best = 0 THEN 0
                 ELSE CHOOSE i \in 1..(Len(a) - best + 1) :
                        /\ OccursIn(la, i, best, lb)
                        /\ \A k \in 1..(i - 1) : ~OccursIn(la, k, best, lb)
    IN  [ substring |-> IF best = 0 THEN << >> ELSE SubSeq(a, first, first + best - 1),
          length    |-> best ]

\* s without the first case-insensitive occurrence of substring.
Discount(s, substring) ==
    LET n  == Len(substring)
        ls == ToLower(s)
        lt == ToLower(substring)
        at == { i \in 1..(Len(s) - n + 1) : SubSeq(ls, i, i + n - 1) = lt }
    IN  IF n = 0 \/ at = { } THEN s
        ELSE LET i == CHOOSE k \in at : \A m \in at : k <= m
             IN  SubSeq(s, 1, i - 1) \o SubSeq(s, i + n, Len(s))

(* ---------------------------- PatternDetector ------------------------- *)

\* The injected word list: Contains(word).
Dictionary == { << "a" >>, << "a", "l" >> }

Leet(c) ==
    CASE c = "0" -> "o" [] c = "1" -> "l" [] c = "3" -> "e" [] c = "4" -> "a"
      [] c = "5" -> "s" [] c = "7" -> "t" [] c = "$" -> "s" [] OTHER -> c

IsDictionaryWord(token) ==
    LET raw == ToLower(token)
    IN  \/ raw \in Dictionary
        \/ [ i \in 1..Len(raw) |-> Leet(raw[i]) ] \in Dictionary

\* The code point of a letter or digit; 0 for every other character, which
\* is never part of an ascending or descending run here.
Code(c) ==
    IF c \in DigitChars THEN 48 + DigitVal(c)
    ELSE IF c \in UpperChars THEN 64 + (CHOOSE i \in 1..26 : UpperSeq[i] = c)
    ELSE IF c \in LowerChars THEN 96 + (CHOOSE i \in 1..26 : LowerSeq[i] = c)
    ELSE 0

KeyboardRows ==
    { << "q", "w", "e", "r", "t", "y", "u", "i", "o", "p" >>,
      << "a", "s", "d", "f", "g", "h", "j", "k", "l" >>,
      << "z", "x", "c", "v", "b", "n", "m" >> }

IsSequence(s) ==
    /\ Len(s) >= 3
    /\ \/ \A i \in 1..(Len(s) - 1) : Code(s[i]) # 0 /\ Code(s[i + 1]) = Code(s[i]) + 1
       \/ \A i \in 1..(Len(s) - 1) : Code(s[i + 1]) # 0 /\ Code(s[i]) = Code(s[i + 1]) + 1
       \/ \E row \in KeyboardRows : OccursIn(ToLower(s), 1, Len(s), row)
       \/ \A i \in 1..Len(s) : s[i] = s[1]

\* The words of s: the maximal runs of characters that are not white space.
RECURSIVE Fields(_)
Fields(s) ==
    LET t == TrimLeft(s)
        RECURSIVE WordEnd(_)
        WordEnd(i) == IF i > Len(t) \/ t[i] \in SpaceChars THEN i - 1 ELSE WordEnd(i + 1)
    IN  IF t = << >> THEN << >>
        ELSE << SubSeq(t, 1, WordEnd(1)) >> \o Fields(Drop(t, WordEnd(1)))

(* ----------------------------- PolicyEvaluator ------------------------ *)

\* A NULL string argument.
NULL == NilBytes

Reasons ==
    { "REASON_ERROR", "REASON_SAME", "REASON_SIMILAR", "REASON_SHORT", "REASON_LONG",
      "REASON_SIMPLESHORT", "REASON_SIMPLE", "REASON_PERSONAL", "REASON_WORD",
      "REASON_SEQ" }

\* Step 5: the words of a qualifying passphrase, checked one by one.
RECURSIVE CheckWords(_)
CheckWords(words) ==
    IF words = << >> THEN NIL
    ELSE IF IsDictionaryWord(Head(words)) THEN "REASON_WORD"
    ELSE IF IsSequence(Head(words)) THEN "REASON_SEQ"
    ELSE CheckWords(Tail(words))

IsPassphrase(params, s) ==
    /\ params.passphrase_words > 0
    /\ Len(Fields(s)) >= params.passphrase_words
    /\ Len(s) >= params.min[3]

\* The tier the number of character classes selects (no class at all is
\* taken with one class).
TierOf(params, classes) ==
    IF classes <= 1 THEN params.min[1]
    ELSE IF classes = 2 THEN params.min[2]
    ELSE IF classes = 3 THEN params.min[4]
    ELSE params.min[5]

\* Step 7: the password is the user name, or one lies wholly within the
\* other, over at least match_length characters.
IsPersonal(params, s, name) ==
    /\ name # NULL
    /\ params.match_length > 0
    /\ LET ls == ToLower(s)
           ln == ToLower(name)
       IN  \/ Len(ls) >= params.match_length /\ OccursIn(ls, 1, Len(ls), ln)
           \/ Len(ln) >= params.match_length /\ OccursIn(ln, 1, Len(ln), ls)

\* Steps 5 to 7 on s, the password or the password with a match discounted.
Evaluate(params, s, name, discounted) ==
    IF IsPassphrase(params, s) THEN CheckWords(Fields(s))
    ELSE
    LET c    == Classify(s)
        tier == TierOf(params, c.classes)
    IN  IF tier = Disabled THEN "REASON_SIMPLESHORT"
        ELSE IF c.length < tier
             THEN (IF discounted THEN "REASON_SIMPLESHORT" ELSE "REASON_SHORT")
        ELSE IF IsDictionaryWord(s) THEN "REASON_WORD"
        ELSE IF IsSequence(s) THEN "REASON_SEQ"
        ELSE IF IsPersonal(params, s, name) THEN "REASON_PERSONAL"
        ELSE NIL

\* Step 4: the longer of the matches with the old password and the user name.
BestMatch(newpass, oldpass, name) ==
    LET mo == IF oldpass = NULL THEN [ substring |-> << >>, length |-> 0 ]
              ELSE LongestCommonSubstring(newpass, oldpass)
        mn == IF name = NULL THEN [ substring |-> << >>, length |-> 0 ]
              ELSE LongestCommonSubstring(newpass, name)
    IN  IF mn.length > mo.length THEN mn ELSE mo

IsSimilar(params, newpass, oldpass, name) ==
    /\ params.match_length > 0
    /\ oldpass # NULL \/ name # NULL
    /\ LET m == BestMatch(newpass, oldpass, name)
       IN  /\ m.length >= params.match_length
           /\ params.similar_deny = 1
           /\ Evaluate(params, Discount(newpass, m.substring), name, TRUE) # NIL

\* const char *passwdqc_check(params, newpass, oldpass, name): NIL (no
\* reason) to accept, or the reason.
passwdqc_check(params, newpass, oldpass, name) ==
    IF oldpass # NULL /\ EqualFold(oldpass, newpass) THEN "REASON_SAME"
    ELSE IF Len(newpass) > params.max THEN "REASON_LONG"
    ELSE IF IsSimilar(params, newpass, oldpass, name) THEN "REASON_SIMILAR"
    ELSE Evaluate(params, newpass, name, FALSE)

(* ------------------------------- Policy.Check ------------------------- *)

\* The byte that ends a C string.
NUL == "NUL"

\* C.CString(string(b)) as the C side reads it: the bytes before the first
\* NUL byte.
CString(b) ==
    LET i == IndexByte(b, NUL)
    IN  IF i = 0 THEN b ELSE SubSeq(b, 1, i - 1)

\* The registry newError fills while the package initialises.
InitErrorsByReason ==
    [ r \in Reasons |->
        CASE r = "REASON_ERROR"       -> "ErrFailed"
          [] r = "REASON_SAME"        -> "ErrSame"
          [] r = "REASON_SIMILAR"     -> "ErrSimilar"
          [] r = "REASON_SHORT"       -> "ErrShort"
          [] r = "REASON_LONG"        -> "ErrLong"
          [] r = "REASON_SIMPLESHORT" -> "ErrSimpleShort"
          [] r = "REASON_SIMPLE"      -> "ErrSimple"
          [] r = "REASON_PERSONAL"    -> "ErrPersonal"
          [] r = "REASON_WORD"        -> "ErrWord"
          [] r = "REASON_SEQ"         -> "ErrSeq" ]

\* The copy of the policy handed to the evaluator.
CopyParams(p) ==
    [ min              |-> p.Min,
      max              |-> p.Max,
      passphrase_words |-> p.PassphraseWords,
      match_length     |-> p.MatchLength,
      similar_deny     |-> IF p.DenySimilar THEN 1 ELSE 0 ]

\* CheckArgs with the old password and the user name in each other's place.
CheckArgsSwapped(p, newPassword, oldPassword, username) ==
    [ params |-> CopyParams(p),
      np     |-> CString(newPassword),
      op     |-> IF username # NilBytes THEN CString(username) ELSE NULL,
      u      |-> IF oldPassword # NilBytes THEN CString(oldPassword) ELSE NULL ]

\* CheckArgs without the tests for nil: string(nil) is the empty string, so
\* an absent old password or user name goes out as an empty one.
CheckArgsNilAsEmpty(p, newPassword, oldPassword, username) ==
    [ params |-> CopyParams(p),
      np     |-> CString(newPassword),
      op     |-> IF oldPassword # NilBytes THEN CString(oldPassword) ELSE << >>,
      u      |-> IF username # NilBytes THEN CString(username) ELSE << >> ]

\* What Check hands to passwdqc_check.
CheckArgs(p, newPassword, oldPassword, username) ==
    [ params |-> CopyParams(p),
      np     |-> CString(newPassword),
      op     |-> IF oldPassword # NilBytes THEN CString(oldPassword) ELSE NULL,
      u      |-> IF username # NilBytes THEN CString(username) ELSE NULL ]

\* Check with the test for a nil newPassword left out: string(nil) is the
\* empty string, which goes to the evaluator.
CheckNoNilTest(registry, p, newPassword, oldPassword, username) ==
    LET a      == CheckArgs(p, IF newPassword = NilBytes THEN << >> ELSE newPassword,
                            oldPassword, username)
        reason == passwdqc_check(a.params, a.np, a.op, a.u)
    IN  [ err   |-> IF reason # NIL
                    THEN (IF reason \in DOMAIN registry THEN registry[reason]
                          ELSE "Error(" \o reason \o ")")
                    ELSE NIL,
          calls |-> << a >> ]

\* One run of Check: the error it returns (NIL for none) and the calls of
\* passwdqc_check it made, each with its arguments.
Check(registry, p, newPassword, oldPassword, username) ==
    IF newPassword = NilBytes THEN [ err |-> "ErrEmpty", calls |-> << >> ]
    ELSE
    LET a      == CheckArgs(p, newPassword, oldPassword, username)
        reason == passwdqc_check(a.params, a.np, a.op, a.u)
    IN  [ err  |-> IF reason # NIL
                   THEN (IF reason \in DOMAIN registry THEN registry[reason]
                         ELSE "Error(" \o reason \o ")")
                   ELSE NIL,
          calls |-> << a >> ]

(* ------------------------------- inputs ------------------------------- *)

\* Longest new password tried.
MaxLen == 3

Alphabet == { "a", "A", "1", " " }

Strings(n) == UNION { [ 1..k -> Alphabet ] : k \in 0..n }

NewPasswords ==
    { NilBytes } \cup Strings(MaxLen)
      \cup { << NUL >>, << "a", NUL, "1" >>, << "p", "a", "s", "s" >> }

ToUpperChar(c) ==
    IF c \in LowerChars THEN UpperSeq[CHOOSE i \in 1..26 : LowerSeq[i] = c] ELSE c

\* The old passwords tried with a new one: none, the empty one, the new one
\* in upper case, and one that shares two characters with many.
OldPasswords(new) ==
    { NilBytes, << >>, << "A", "1" >> }
      \cup (IF new = NilBytes THEN { } ELSE { [ i \in 1..Len(new) |-> ToUpperChar(new[i]) ] })

Usernames == { NilBytes, << >>, << "a", " ", "1" >> }

MinChoices ==
    { << Disabled, 3, 3, 2, 2 >>, << 3, 3, 2, 2, 2 >>, << Disabled, Disabled, Disabled, 3, 2 >> }

Policies ==
    { DefaultPolicy }
      \cup [ Min : MinChoices, Max : { 2, 1024 }, PassphraseWords : { 0, 2 },
             MatchLength : { 0, 2 }, DenySimilar : BOOLEAN ]

\* The items configuration texts are put together from.
ItemPool ==
    { << "m", "a", "x", "=", "2", "0" >>,
      << "m", "a", "x", "=", "7" >>,
      << "m", "a", "x", "=", "-", "1" >>,
      << "m", "a", "x", "=", "+", "1" >>,
      << "m", "a", "x", "=", "0", "x", "1", "0" >>,
      << "m", "a", "t", "c", "h", "=" >>,
      << "m", "a", "t", "c", "h", "=", "2" >>,
      << "p", "a", "s", "s", "p", "h", "r", "a", "s", "e", "=", "-", "3" >>,
      << "m", "i", "n", "=", "d", "i", "s", "a", "b", "l", "e", "d", ",", "4", ",", "3", ",", "3", ",", "2" >>,
      << "m", "i", "n", "=", "8", ",", "-", "2", ",", "3", ",", "3", ",", "2" >>,
      << "m", "i", "n", "=", "1", ",", "2", ",", "3" >>,
      << "s", "i", "m", "i", "l", "a", "r", "=", "p", "e", "r", "m", "i", "t" >>,
      << "s", "i", "m", "i", "l", "a", "r", "=", "n", "o" >>,
      << >>,
      << "m", "a", "x" >>,
      << "b", "o", "g", "u", "s", "=", "1" >>,
      << "\t", "m", "a", "x", "=", "7" >> }

Separators == { << " " >>, << "\n" >>, << "\r", "\n" >> }

RECURSIVE Join(_, _)
Join(items, seps) ==
    IF Len(items) = 1 THEN items[1]
    ELSE items[1] \o seps[1] \o Join(Tail(items), Tail(seps))

\* The policies whose canonical text is parsed, valid and invalid ones.
CanonPolicies ==
    [ Min : [ 1..5 -> { 0, 8, 24, Disabled } ], Max : { 5, 1024 },
      PassphraseWords : { 0, 3 }, MatchLength : { 4 }, DenySimilar : BOOLEAN ]

(* ---------------------------- state machine --------------------------- *)

\* One call per behaviour: Init draws the call and its arguments, the action
\* of that call runs it.  The package keeps nothing from one call to the
\* next but the registry, which no call writes.
VARIABLES
    errorsByReason,  \* the package's registry of errors by reason
    op,              \* the call: "check", "parse" (a text of items), "canon"
    done,            \* whether the call has returned
    policy,          \* Check: the receiver
    newPassword,     \* Check: the arguments
    oldPassword,
    username,
    calls,           \* Check: its calls of passwdqc_check, with their arguments
    err,             \* Check: the error returned, NIL for none
    config,          \* ParsePolicy: the text
    want,            \* the policy a canonical text was written from
    parsed,          \* ParsePolicy: [err, p]
    pc,              \* concurrent Checks: where each goroutine is in Check
    args,            \* concurrent Checks: each goroutine's arguments
    params,          \* concurrent Checks: each goroutine's copy of the policy
    reason,          \* concurrent Checks: what passwdqc_check returned to each
    ret              \* concurrent Checks: the error each Check returned

vars == << errorsByReason, op, done, policy, newPassword, oldPassword, username,
           calls, err, config, want, parsed, pc, args, params, reason, ret >>

concVars == << pc, args, params, reason, ret >>

\* No goroutine runs.
NoConc ==
    /\ pc = << >>
    /\ args = << >>
    /\ params = << >>
    /\ reason = << >>
    /\ ret = << >>

checkVars == << policy, newPassword, oldPassword, username, calls, err >>
parseVars == << config, want, parsed >>

NoCheck ==
    /\ policy = DefaultPolicy
    /\ newPassword = NilBytes
    /\ oldPassword = NilBytes
    /\ username = NilBytes

InitCheck ==
    /\ op = "check"
    /\ policy \in Policies
    /\ newPassword \in NewPasswords
    /\ oldPassword \in OldPasswords(newPassword)
    /\ username \in Usernames
    /\ config = << >>
    /\ want = DefaultPolicy

InitParseText ==
    /\ op = "parse"
    /\ \E n \in 1..MaxItems :
         \E items \in [ 1..n -> ItemPool ], seps \in [ 1..(n - 1) -> Separators ] :
           config = Join(items, seps)
    /\ want = DefaultPolicy
    /\ NoCheck

InitParseCanonical ==
    /\ op = "canon"
    /\ want \in CanonPolicies
    /\ config = FormatPolicy(want)
    /\ NoCheck

Init ==
    /\ errorsByReason = InitErrorsByReason
    /\ done = FALSE
    /\ calls = << >>
    /\ err = NIL
    /\ parsed = [ err |-> FALSE, p |-> NIL ]
    /\ NoConc
    /\ InitCheck \/ InitParseText \/ InitParseCanonical

\* p.Check(newPassword, oldPassword, username)
CheckCall ==
    /\ op = "check"
    /\ ~done
    /\ LET r == Check(errorsByReason, policy, newPassword, oldPassword, username)
       IN  /\ calls' = r.calls
           /\ err' = r.err
    /\ done' = TRUE
    /\ UNCHANGED << errorsByReason, op, policy, newPassword, oldPassword, username >>
    /\ UNCHANGED parseVars
    /\ UNCHANGED concVars

\* ParsePolicy(config) on a text put together from items.
ParseText ==
    /\ op = "parse"
    /\ ~done
    /\ parsed' = ParsePolicy(config)
    /\ done' = TRUE
    /\ UNCHANGED << errorsByReason, op, config, want >>
    /\ UNCHANGED checkVars
    /\ UNCHANGED concVars

\* ParsePolicy(config) on the canonical text of the policy want.
ParseCanonical ==
    /\ op = "canon"
    /\ ~done
    /\ parsed' = ParsePolicy(config)
    /\ done' = TRUE
    /\ UNCHANGED << errorsByReason, op, config, want >>
    /\ UNCHANGED checkVars
    /\ UNCHANGED concVars

Next == CheckCall \/ ParseText \/ ParseCanonical

Spec == Init /\ [][Next]_vars

(* ------------------------- concurrent Checks -------------------------- *)

\* Goroutines that call Check on the one policy at the same time.
NumProcs == 2

Procs == 1..NumProcs

ConcPolicies ==
    { DefaultPolicy,
      [ Min |-> << 3, 3, 2, 2, 2 >>, Max |-> 1024, PassphraseWords |-> 2,
        MatchLength |-> 2, DenySimilar |-> TRUE ] }

ConcArgs ==
    [ new  : { NilBytes, << "a", " ", "1" >>, << "A", "1", " " >> },
      old  : { NilBytes, << "A", " ", "1" >> },
      user : { NilBytes } ]

\* var params C.passwdqc_params_qc_t: every field zero.
ZeroParams ==
    [ min |-> << 0, 0, 0, 0, 0 >>, max |-> 0, passphrase_words |-> 0,
      match_length |-> 0, similar_deny |-> 0 ]

InitConc ==
    /\ errorsByReason = InitErrorsByReason
    /\ policy \in ConcPolicies
    /\ args \in [ Procs -> ConcArgs ]
    /\ pc = [ i \in Procs |-> "start" ]
    /\ params = [ i \in Procs |-> ZeroParams ]
    /\ reason = [ i \in Procs |-> NIL ]
    /\ ret = [ i \in Procs |-> NIL ]
    /\ op = "conc"
    /\ done = FALSE
    /\ newPassword = NilBytes
    /\ oldPassword = NilBytes
    /\ username = NilBytes
    /\ calls = << >>
    /\ err = NIL
    /\ config = << >>
    /\ want = DefaultPolicy
    /\ parsed = [ err |-> FALSE, p |-> NIL ]

\* What no step of Check touches but through the equations it states.
callVars == << op, done, newPassword, oldPassword, username, calls, err,
               config, want, parsed >>

\* if newPassword == nil { return ErrEmpty }
NilTest(i) ==
    /\ pc[i] = "start"
    /\ IF args[i].new = NilBytes
       THEN /\ ret' = [ ret EXCEPT ![i] = "ErrEmpty" ]
            /\ pc' = [ pc EXCEPT ![i] = "done" ]
       ELSE /\ ret' = ret
            /\ pc' = [ pc EXCEPT ![i] = "copyMin" ]
    /\ UNCHANGED << errorsByReason, policy, args, params, reason >>
    /\ UNCHANGED callVars

\* for i, v := range p.Min { params.min[i] = C.int(v) }
CopyMin(i) ==
    /\ pc[i] = "copyMin"
    /\ params' = [ params EXCEPT ![i].min = policy.Min ]
    /\ pc' = [ pc EXCEPT ![i] = "copyMax" ]
    /\ UNCHANGED << errorsByReason, policy, args, reason, ret >>
    /\ UNCHANGED callVars

\* params.max = C.int(p.Max)
CopyMax(i) ==
    /\ pc[i] = "copyMax"
    /\ params' = [ params EXCEPT ![i].max = policy.Max ]
    /\ pc' = [ pc EXCEPT ![i] = "copyPassphraseWords" ]
    /\ UNCHANGED << errorsByReason, policy, args, reason, ret >>
    /\ UNCHANGED callVars

\* params.passphrase_words = C.int(p.PassphraseWords)
CopyPassphraseWords(i) ==
    /\ pc[i] = "copyPassphraseWords"
    /\ params' = [ params EXCEPT ![i].passphrase_words = policy.PassphraseWords ]
    /\ pc' = [ pc EXCEPT ![i] = "copyMatchLength" ]
    /\ UNCHANGED << errorsByReason, policy, args, reason, ret >>
    /\ UNCHANGED callVars

\* params.match_length = C.int(p.MatchLength)
CopyMatchLength(i) ==
    /\ pc[i] = "copyMatchLength"
    /\ params' = [ params EXCEPT ![i].match_length = policy.MatchLength ]
    /\ pc' = [ pc EXCEPT ![i] = "copyDenySimilar" ]
    /\ UNCHANGED << errorsByReason, policy, args, reason, ret >>
    /\ UNCHANGED callVars

\* if p.DenySimilar { params.similar_deny = 1 } else { params.similar_deny = 0 }
CopyDenySimilar(i) ==
    /\ pc[i] = "copyDenySimilar"
    /\ params' = [ params EXCEPT ![i].similar_deny = IF policy.DenySimilar THEN 1 ELSE 0 ]
    /\ pc' = [ pc EXCEPT ![i] = "call" ]
    /\ UNCHANGED << errorsByReason, policy, args, reason, ret >>
    /\ UNCHANGED callVars

\* reason := C.passwdqc_check(&params, np, op, u), on the goroutine's own
\* copies of the strings and of the parameters.
CallEvaluator(i) ==
    /\ pc[i] = "call"
    /\ LET a == CheckArgs(policy, args[i].new, args[i].old, args[i].user)
       IN  reason' = [ reason EXCEPT ![i] = passwdqc_check(params[i], a.np, a.op, a.u) ]
    /\ pc' = [ pc EXCEPT ![i] = "lookup" ]
    /\ UNCHANGED << errorsByReason, policy, args, params, ret >>
    /\ UNCHANGED callVars

\* Lookup with newError(reason) in place of the read of the registry: a new
\* Error, stored in the registry under the reason.
LookupNewError(i) ==
    /\ pc[i] = "lookup"
    /\ IF reason[i] # NIL
       THEN /\ ret' = [ ret EXCEPT ![i] = "Error(" \o reason[i] \o ")" ]
            /\ errorsByReason' =
                 [ errorsByReason EXCEPT ![reason[i]] = "Error(" \o reason[i] \o ")" ]
       ELSE /\ ret' = [ ret EXCEPT ![i] = NIL ]
            /\ errorsByReason' = errorsByReason
    /\ pc' = [ pc EXCEPT ![i] = "done" ]
    /\ UNCHANGED << policy, args, params, reason >>
    /\ UNCHANGED callVars

\* if reason != nil { if err, ok := errorsByReason[reason]; ok { return err };
\* return &Error{...} }; return nil
Lookup(i) ==
    /\ pc[i] = "lookup"
    /\ ret' = [ ret EXCEPT ![i] =
                 IF reason[i] # NIL
                 THEN (IF reason[i] \in DOMAIN errorsByReason
                       THEN errorsByReason[reason[i]]
                       ELSE "Error(" \o reason[i] \o ")")
                 ELSE NIL ]
    /\ pc' = [ pc EXCEPT ![i] = "done" ]
    /\ UNCHANGED << errorsByReason, policy, args, params, reason >>
    /\ UNCHANGED callVars

NextConc ==
    \E i \in Procs :
      \/ NilTest(i)
      \/ CopyMin(i)
      \/ CopyMax(i)
      \/ CopyPassphraseWords(i)
      \/ CopyMatchLength(i)
      \/ CopyDenySimilar(i)
      \/ CallEvaluator(i)
      \/ Lookup(i)

SpecConc == InitConc /\ [][NextConc]_vars

(* ------------------------------- claims ------------------------------- *)

Checked == op = "check" /\ done
ParsedText == op = "parse" /\ done
ParsedCanonical == op = "canon" /\ done

\* C1: Check with a nil newPassword returns ErrEmpty, whatever the policy,
\* the old password and the user name, and returns it without having called
\* the evaluator.
C1_NilNewPasswordIsEmpty ==
    (Checked /\ newPassword = NilBytes) => (err = "ErrEmpty" /\ calls = << >>)

C1_Witness ==
    /\ Checked
    /\ newPassword = NilBytes
    /\ oldPassword = << "A", "1" >>
    /\ username = << "a", " ", "1" >>
    /\ policy # DefaultPolicy
    /\ err = "ErrEmpty"

\* C2: when the old password is supplied and equals the new one but for the
\* case of letters, Check returns ErrSame, whatever the policy.
C2_SameAsOldIsSame ==
    (/\ Checked
     /\ newPassword # NilBytes
     /\ oldPassword # NilBytes
     /\ EqualFold(oldPassword, newPassword))
      => err = "ErrSame"

C2_Witness ==
    /\ Checked
    /\ newPassword = << "a", " ", "1" >>
    /\ oldPassword = << "A", " ", "1" >>
    /\ Len(newPassword) > policy.Max
    /\ ~policy.DenySimilar
    /\ policy.MatchLength = 0
    /\ err = "ErrSame"

\* A valid policy: no negative value, the enabled min values of two, three
\* and four classes and of passphrases not increasing, max at least every
\* enabled min.
ValidPolicy(p) ==
    /\ \A i \in 1..5 : p.Min[i] >= 0
    /\ \A i, j \in 2..5 :
         (i < j /\ p.Min[i] # Disabled /\ p.Min[j] # Disabled) => p.Min[j] <= p.Min[i]
    /\ MaxCoversMins(p)
    /\ p.Max >= 0
    /\ p.PassphraseWords >= 0
    /\ p.MatchLength >= 0

\* C3: parsing the canonical text of a valid policy succeeds and returns
\* that policy, field by field.
C3_ParseInvertsFormat ==
    (ParsedCanonical /\ ValidPolicy(want)) => (~parsed.err /\ parsed.p = want)

C3_Witness ==
    /\ ParsedCanonical
    /\ ValidPolicy(want)
    /\ want.Min = << Disabled, 24, 8, 8, 0 >>
    /\ want.Max = 1024
    /\ ~want.DenySimilar
    /\ ~parsed.err
    /\ parsed.p = want

\* The name and the value of an item, as the text gives them.
ItemName(it) == SplitN2(TrimSpace(it), "=")[1]
ItemValue(it) == SplitN2(TrimSpace(it), "=")[2]
IsItem(it) == Len(SplitN2(TrimSpace(it), "=")) = 2

UnsignedDigits(v) == v # << >> /\ AllDigits(v)

\* Whether an item gives a number that is not a string of digits: the value
\* of max, passphrase or match, or an entry of min other than disabled.
BadNumber(it) ==
    /\ IsItem(it)
    /\ \/ /\ ItemName(it) \in { Str_max, Str_passphrase, Str_match }
          /\ ~UnsignedDigits(ItemValue(it))
       \/ /\ ItemName(it) = Str_min
          /\ \E v \in { Split(ItemValue(it), ",")[i] :
                          i \in 1..Len(Split(ItemValue(it), ",")) } :
               v # Str_disabled /\ ~UnsignedDigits(v)

NoNegativeField(p) ==
    /\ \A i \in 1..5 : p.Min[i] >= 0
    /\ p.Max >= 0
    /\ p.PassphraseWords >= 0
    /\ p.MatchLength >= 0

\* C4: ParsePolicy fails on every text with a number that is not a string of
\* decimal digits (a sign, a prefix, no digit), so that no policy it returns
\* has a negative field.
C4_SignedNumbersRejected ==
    ParsedText =>
      /\ (\E i \in 1..Len(ConfigItems(config)) : BadNumber(ConfigItems(config)[i]))
           => parsed.err
      /\ ~parsed.err => NoNegativeField(parsed.p)

\* The orders n things can be put in.
Orders(n) == { f \in [ 1..n -> 1..n ] : \A i, j \in 1..n : f[i] = f[j] => i = j }

Reorder(items, f) == [ i \in 1..Len(items) |-> items[f[i]] ]

SpaceJoined(items) == Join(items, [ i \in 1..(Len(items) - 1) |-> << " " >> ])

NamesIn(items) == { ItemName(items[i]) : i \in 1..Len(items) }

\* C5: the policy ParsePolicy returns does not depend on the order of the
\* items: every reordering of a text that parses gives the same policy, and
\* a field no item names has the value of the default policy.
C5_OrderIndependent ==
    (ParsedText /\ ~parsed.err) =>
      LET items == ConfigItems(config)
      IN  /\ \A f \in Orders(Len(items)) :
                ParsePolicy(SpaceJoined(Reorder(items, f))) = parsed
          /\ Str_min \notin NamesIn(items) => parsed.p.Min = DefaultPolicy.Min
          /\ Str_max \notin NamesIn(items) => parsed.p.Max = DefaultPolicy.Max
          /\ Str_passphrase \notin NamesIn(items)
               => parsed.p.PassphraseWords = DefaultPolicy.PassphraseWords
          /\ Str_match \notin NamesIn(items)
               => parsed.p.MatchLength = DefaultPolicy.MatchLength
          /\ Str_similar \notin NamesIn(items)
               => parsed.p.DenySimilar = DefaultPolicy.DenySimilar

\* C6, as claimed: every policy ParsePolicy returns has max at least every
\* enabled min; a text that gives a smaller max is an error.  (Stated of the
\* policies without a negative field, which leaves signed numbers aside.)
C6_ParsedPolicyKeepsInvariant ==
    ((ParsedText \/ ParsedCanonical) /\ ~parsed.err /\ NoNegativeField(parsed.p))
      => MaxCoversMins(parsed.p)

\* C6, amended: ParsePolicy does not check max against min. The canonical
\* text of a policy whose max is smaller than an enabled min parses without
\* error, to a policy with those very min and max.
C6_ParseDoesNotValidate ==
    (ParsedCanonical /\ ~MaxCoversMins(want)) =>
      (~parsed.err /\ parsed.p.Max = want.Max /\ parsed.p.Min = want.Min)

C6_Witness ==
    /\ ParsedCanonical
    /\ want.Max = 5
    /\ want.Min = << Disabled, 24, 8, 8, 8 >>
    /\ ~parsed.err
    /\ parsed.p.Max = 5
    /\ parsed.p.Min[2] = 24

\* Whether a text holds nothing but spaces and line ends.
OnlySeparators(text) == \A i \in 1..Len(text) : text[i] \in { " ", "\n", "\r" }

\* C7: ParsePolicy fails on the empty text and on every text of nothing but
\* spaces and line ends; it returns no policy for them, not the default one.
C7_BlankTextIsError ==
    (ParsedText /\ OnlySeparators(config)) => (parsed.err /\ parsed.p = NIL)

C7_Witness ==
    /\ ParsedText
    /\ config = << " " >>
    /\ parsed.err

\* The values a min entry is raised to.
RaisedTo == { 1, 2, 3, 4, 5, Disabled }

\* C8: raising one min entry of the policy, the rest unchanged, never turns
\* a rejected password into an accepted one.
C8_MinMonotone ==
    (Checked /\ err # NIL) =>
      \A i \in 1..5 : \A v \in RaisedTo :
        v > policy.Min[i] =>
          Check(errorsByReason, [ policy EXCEPT !.Min[i] = v ],
                newPassword, oldPassword, username).err # NIL

\* C9: without old password and user name, a new password that is no
\* qualifying passphrase, is no longer than max and is shorter than every
\* enabled min is rejected as ErrShort.
C9_BelowEveryTierIsShort ==
    (/\ Checked
     /\ newPassword # NilBytes
     /\ NUL \notin { newPassword[i] : i \in 1..Len(newPassword) }
     /\ oldPassword = NilBytes
     /\ username = NilBytes
     /\ ~IsPassphrase(CopyParams(policy), newPassword)
     /\ Len(newPassword) <= policy.Max
     /\ \A i \in 1..5 : policy.Min[i] # Disabled => Len(newPassword) < policy.Min[i])
      => err = "ErrShort"

\* C10: Check with an empty newPassword that is not nil returns ErrEmpty, as
\* it does for a nil one.
C10_EmptyNewPasswordIsEmpty ==
    (Checked /\ newPassword = << >>) => err = "ErrEmpty"

\* C11: Check keeps absent, empty and given apart for the old password and
\* for the user name, each on its own: a nil argument goes to the evaluator
\* as NULL (not supplied, so compared with nothing), an empty one that is not
\* nil goes as a supplied string of length zero; neither becomes the other.
C11_AbsentAndEmptyKeptApart ==
    (Checked /\ newPassword # NilBytes) =>
      /\ Len(calls) = 1
      /\ oldPassword = NilBytes <=> calls[1].op = NULL
      /\ oldPassword = << >> => calls[1].op = << >>
      /\ username = NilBytes <=> calls[1].u = NULL
      /\ username = << >> => calls[1].u = << >>

C11_Witness ==
    /\ Checked
    /\ newPassword = << "a", " ", "1" >>
    /\ oldPassword = << >>
    /\ username = NilBytes
    /\ Len(calls) = 1
    /\ calls[1].op = << >>
    /\ calls[1].u = NULL

\* C12: however concurrent Checks on one policy interleave, no step of
\* Check writes the policy or the registry of errors, and every Check returns
\* what it returns when run alone on the same policy and arguments.
C12_ConcurrentChecksIndependent ==
    /\ [](\A i \in Procs :
            (pc # << >> /\ pc[i] = "done") =>
              ret[i] = Check(errorsByReason, policy,
                             args[i].new, args[i].old, args[i].user).err)
    /\ [][policy' = policy /\ errorsByReason' = errorsByReason]_vars

\* Two Checks in flight at once on the one policy, the first with its reason
\* in hand, the second part way through its copy of the policy.
C12_Witness ==
    /\ op = "conc"
    /\ policy # DefaultPolicy
    /\ pc[1] = "lookup"
    /\ reason[1] = "REASON_SAME"
    /\ pc[2] = "copyMatchLength"
    /\ args[2].new = << "A", "1", " " >>

=============================================================================
